---- MODULE Spec2Model ----
(***************************************************************************)
(* Model of src/server.js: an express relay with three handlers            *)
(* (POST /api/costs, POST /api/top-resources, GET /api/plans).  Each       *)
(* handler fetches a token, lists the subscriptions, launches one query    *)
(* per subscription, joins them with Promise.all and reshapes the result.  *)
(*                                                                         *)
(* A step of the model is one run of the node event loop: the arrival of   *)
(* a request or of an upstream reply, followed by every continuation       *)
(* (microtask) that reply makes runnable.                                  *)
(*                                                                         *)
(* Amounts: an upstream cost is an integer number of 1/256 currency units  *)
(* (a dyadic rational, so exactly a double); a rounded cost is an integer  *)
(* number of hundredths.                                                   *)
(***************************************************************************)
EXTENDS Integers, Sequences, FiniteSets, TLC

\* ------------------------------------------------------------------ bounds
MaxSubs == 3        \* longest subscription list, one request in flight
MaxReq == 2         \* requests in flight together
ConcSubs == 1       \* longest subscription list, several requests in flight

\* ------------------------------------------------------- program constants
TopN == 10          \* .slice(0, 10)

Reqs == 1..MaxReq
Dates == {"", "2024-01-01"}      \* "" stands for an absent (falsy) parameter

VARIABLES
    pc,             \* where each handler stands: idle, token, subs, fanout, done
    endpoint,       \* the route of each request
    startDate,      \* req.body.startDate
    endDate,        \* req.body.endDate
    accessToken,    \* the handler's const accessToken (0: not yet set)
    subscriptions,  \* the handler's const subscriptions
    promises,       \* costPromises / resourcePromises / planPromises
    status,         \* the HTTP status sent (0: no response yet)
    body,           \* the JSON body sent
    calls,          \* the upstream calls each request has issued, in order
    tokenRes,       \* what the credential provider answered each request
    subsRes,        \* what the subscription lister answered each request
    upstream,       \* what the query client answered per subscription index
    outOfOrder      \* whether a later query settled before an earlier one

vars == <<pc, endpoint, startDate, endDate, accessToken, subscriptions,
          promises, status, body, calls, tokenRes, subsRes, upstream,
          outOfOrder>>

\* ------------------------------------------------------------- JS values
Undefined == [kind |-> "undefined"]
Null == [kind |-> "null"]
NoBody == [kind |-> "none"]

Range(s) == {s[i] : i \in DOMAIN s}

Min(a, b) == IF a < b THEN a ELSE b

RECURSIVE SeqSum(_)
SeqSum(s) == IF s = <<>> THEN 0 ELSE Head(s) + SeqSum(Tail(s))

RECURSIVE Concat(_)
Concat(ss) == IF ss = <<>> THEN <<>> ELSE Head(ss) \o Concat(Tail(ss))

\* ------------------------------------------------------ upstream payloads
\* A subscription as getSubscriptions maps it.  The display name is the one
\* the subscription bears when request r lists it (names change over time).
Subscription(id, r) == [subscriptionId |-> id, displayName |-> <<"name", id, r>>]

\* The lists the subscription lister may answer request r: any order of any
\* of the subscriptions 1..n, none twice.
SubLists(n, r) ==
    {[i \in DOMAIN s |-> Subscription(s[i], r)] :
        s \in {t \in UNION {[1..k -> 1..n] : k \in 0..n} :
                  \A a, b \in DOMAIN t : a # b => t[a] # t[b]}}

\* With several requests in flight: the first k subscriptions, k <= n.
ConcSubLists(n, r) == {[i \in 1..k |-> Subscription(i, r)] : k \in 0..n}

\* The token the credential provider issues to request r: a fresh one per
\* request.
IssuedToken(r) == r

\* The mark an upstream row carries in its pass-through column: the request
\* and subscription the query was issued for, and the row's place.
Tag(r, s, k) == <<r, s, k>>

\* ---- cost query payloads: rows [cost, meterCategory, meterSubCategory,
\* SubscriptionId, ResourceGroup]; the fourth column is whatever the provider
\* wrote there, the fifth may be empty.
TableData(rows) == [kind |-> "object", hasRows |-> TRUE, rows |-> rows]
NoProperties == [kind |-> "object", hasRows |-> FALSE, rows |-> <<>>]

CostRaw1(r, s) == <<1280, "Microsoft Defender for Cloud", Tag(r, s, 1), s, "rg1">>
CostRaw2(r, s) == <<77, "Microsoft Defender for Cloud", Tag(r, s, 2), 0, "">>

CostPayloads(r, s) ==
    {NoProperties, TableData(<<CostRaw1(r, s)>>),
     TableData(<<CostRaw1(r, s), CostRaw2(r, s)>>)}

\* ---- resource query payloads: rows [cost, resourceId, meterSubCategory]; a
\* resourceId is its path segments, <<>> when absent.
TopRaw(r, s, k, cost, rid) == <<cost, rid, Tag(r, s, k)>>

TopRowsA(r, s) ==
    <<TopRaw(r, s, 1, 640, <<"rg1", "vm1">>),
      TopRaw(r, s, 2, 3, <<"rg1", "vm2">>),
      TopRaw(r, s, 3, 1280, <<"rg2", "sql1">>),
      TopRaw(r, s, 4, 2, <<>>),
      TopRaw(r, s, 5, -256, <<"rg2", "credit">>),
      TopRaw(r, s, 6, 32, <<"rg3", "kv1">>)>>

TopRowsB(r, s) ==
    <<TopRaw(r, s, 1, 1281, <<"rg1", "vm1">>),
      TopRaw(r, s, 2, 100, <<"rg1", "vm3">>),
      TopRaw(r, s, 3, 1280, <<"rg4", "st1">>),
      TopRaw(r, s, 4, 300, <<"rg4", "st2">>),
      TopRaw(r, s, 5, 3, <<>>)>>

TopPayloads(r, s) ==
    {NoProperties, TableData(TopRowsA(r, s)), TableData(TopRowsB(r, s))}

\* ---- plan payloads: records {name, properties: {pricingTier}}; properties
\* or the tier may be absent ("" stands for an absent tier).
PlanData(value) == [kind |-> "object", value |-> value]
Plan(r, s, k, hasProps, tier) ==
    [name |-> Tag(r, s, k), hasProperties |-> hasProps, pricingTier |-> tier]

PlanPayloads(r, s) ==
    {PlanData(<<>>),
     PlanData(<<Plan(r, s, 1, FALSE, "")>>),
     PlanData(<<Plan(r, s, 1, TRUE, "Standard"), Plan(r, s, 2, TRUE, ""),
                Plan(r, s, 3, TRUE, "Free")>>)}

Payloads(ep, r, s) ==
    CASE ep = "costs" -> CostPayloads(r, s)
      [] ep = "top" -> TopPayloads(r, s)
      [] ep = "plans" -> PlanPayloads(r, s)

\* The one payload per route used when several requests are in flight.
ConcPayloads(ep, r, s) ==
    CASE ep = "costs" -> {TableData(<<CostRaw1(r, s), CostRaw2(r, s)>>)}
      [] ep = "top" -> {TableData(<<TopRaw(r, s, 1, 3, <<>>),
                                    TopRaw(r, s, 2, 640, <<"rg1", "vm1">>)>>)}
      [] ep = "plans" -> {PlanData(<<Plan(r, s, 1, TRUE, "Standard"),
                                     Plan(r, s, 2, TRUE, "")>>)}

\* ------------------------------------------------------- the fetch helpers
\* Each returns what the async function settles to: threw (a rejection) or a
\* value.  ok is the outcome of the axios call inside its try block.
\* getAccessToken with the catch of fetchDefenderPlans: nothing is thrown.
getAccessTokenSwallow(ok, token) ==
    IF ok THEN [threw |-> FALSE, value |-> token]
    ELSE [threw |-> FALSE, value |-> 0]

getAccessToken(ok, token) ==
    IF ok THEN [threw |-> FALSE, value |-> token]
    ELSE [threw |-> TRUE, value |-> 0]

getSubscriptions(ok, list) ==
    IF ok THEN [threw |-> FALSE, value |-> list]
    ELSE [threw |-> TRUE, value |-> <<>>]

fetchCostData(ok, data) ==
    IF ok THEN [threw |-> FALSE, value |-> data]
    ELSE [threw |-> TRUE, value |-> Undefined]

fetchTopResources(ok, data) ==
    IF ok THEN [threw |-> FALSE, value |-> data]
    ELSE [threw |-> TRUE, value |-> Undefined]

\* fetchDefenderPlans rethrowing as the other two fetchers do.
fetchDefenderPlansThrows(ok, data) ==
    IF ok THEN [threw |-> FALSE, value |-> data]
    ELSE [threw |-> TRUE, value |-> Undefined]

\* The catch block returns null instead of throwing.
fetchDefenderPlans(ok, data) ==
    IF ok THEN [threw |-> FALSE, value |-> data]
    ELSE [threw |-> FALSE, value |-> Null]

\* ------------------------------------------------- the per-query promises
PendingPromise == [state |-> "pending", value |-> Undefined]
Fulfilled(v) == [state |-> "fulfilled", value |-> v]
Rejected == [state |-> "rejected", value |-> Undefined]

\* A result object; error "" and data Undefined stand for an absent property.
Result(sub, data, error) == [subscription |-> sub, data |-> data, error |-> error]

\* costPromise without its catch.
costPromiseNoCatch(sub, fetched) ==
    IF fetched.threw THEN Rejected
    ELSE Fulfilled(Result(sub, fetched.value, ""))

\* fetchCostData(..).then(data => ({subscription, data}))
\*                   .catch(error => ({subscription, error}))
costPromise(sub, fetched) ==
    IF fetched.threw
    THEN Fulfilled(Result(sub, Undefined, "Failed to fetch cost data"))
    ELSE Fulfilled(Result(sub, fetched.value, ""))

\* resourcePromise with the catch of costPromise.
resourcePromiseCaught(sub, fetched) ==
    IF fetched.threw
    THEN Fulfilled(Result(sub, Undefined, "Failed to fetch top resources"))
    ELSE Fulfilled(Result(sub, fetched.value, ""))

\* fetchTopResources(..).then(data => ({subscription, data})): no catch.
resourcePromise(sub, fetched) ==
    IF fetched.threw THEN Rejected
    ELSE Fulfilled(Result(sub, fetched.value, ""))

\* fetchDefenderPlans(..).then(data => ({subscription, data}))
planPromise(sub, fetched) ==
    IF fetched.threw THEN Rejected
    ELSE Fulfilled(Result(sub, fetched.value, ""))

\* A join that is fulfilled by the first fulfilled member.
PromiseFirst(ps) ==
    IF \E i \in DOMAIN ps : ps[i].state = "rejected"
    THEN [state |-> "rejected", values |-> <<>>]
    ELSE IF ps = <<>> \/ \E i \in DOMAIN ps : ps[i].state = "fulfilled"
    THEN LET done == SelectSeq(ps, LAMBDA p : p.state = "fulfilled")
         IN [state |-> "fulfilled", values |-> [i \in DOMAIN done |-> done[i].value]]
    ELSE [state |-> "pending", values |-> <<>>]

\* Promise.all: rejected once a member is, fulfilled with the members' values
\* in the members' order once all are, pending otherwise.
PromiseAll(ps) ==
    IF \E i \in DOMAIN ps : ps[i].state = "rejected"
    THEN [state |-> "rejected", values |-> <<>>]
    ELSE IF \A i \in DOMAIN ps : ps[i].state = "fulfilled"
    THEN [state |-> "fulfilled", values |-> [i \in DOMAIN ps |-> ps[i].value]]
    ELSE [state |-> "pending", values |-> <<>>]

\* Results gathered in the order the replies come in.
CompletionIndex(ps, i) ==
    1 + Cardinality({j \in DOMAIN ps : ps[j].state # "pending"})

\* The member of the promise array that the reply to the i-th query settles.
ResultIndex(ps, i) == i

\* ---------------------------------------------------------- /api/costs
\* The parameter check with && for ||.
MissingBoth(sd, ed) == sd = "" /\ ed = ""

MissingParams(sd, ed) == sd = "" \/ ed = ""

\* result.data?.properties?.rows || []
RowsOrEmpty(data) ==
    IF data.kind = "object" /\ data.hasRows THEN data.rows ELSE <<>>

\* The row with the provider's own SubscriptionId column kept.
CostRowRawId(sub, row) ==
    <<row[1], row[2], row[3], row[4],
      IF row[5] = "" THEN "Unknown" ELSE row[5], sub.displayName>>

\* The six-column row pushed for one upstream row.
CostRow(sub, row) ==
    <<row[1], row[2], row[3], sub.subscriptionId,
      IF row[5] = "" THEN "Unknown" ELSE row[5], sub.displayName>>

CostRowsOf(result) ==
    IF result.error # "" THEN <<>>
    ELSE LET rows == RowsOrEmpty(result.data)
         IN [k \in DOMAIN rows |-> CostRow(result.subscription, rows[k])]

aggregatedRows(results) ==
    Concat([i \in DOMAIN results |-> CostRowsOf(results[i])])

CostColumns ==
    <<"Cost", "MeterCategory", "MeterSubCategory", "SubscriptionId",
      "ResourceGroup", "SubscriptionName">>

CostsBody(results, subs) ==
    [properties |-> [rows |-> aggregatedRows(results), columns |-> CostColumns],
     subscriptions |-> subs]

\* -------------------------------------------------- /api/top-resources
\* parseFloat(cost.toFixed(2)) of a cost of c/256: the nearest number of
\* hundredths to the magnitude, the larger one on a tie, with the sign put back.
toFixed2(c) ==
    LET a == IF c < 0 THEN -c ELSE c
        n == (a * 25 + 32) \div 64
    IN IF c < 0 THEN -n ELSE n

\* resourceId ? resourceId.split('/').pop() : 'Unknown'
resourceName(resourceId) ==
    IF resourceId = <<>> THEN "Unknown" ELSE resourceId[Len(resourceId)]

TopResource(sub, row) ==
    [subscriptionId |-> sub.subscriptionId,
     subscriptionName |-> sub.displayName,
     resourceName |-> resourceName(row[2]),
     resourceId |-> row[2],
     meterSubCategory |-> row[3],
     cost |-> toFixed2(row[1])]

TopRowsOf(result) ==
    IF result.data.kind = "object" /\ result.data.hasRows
    THEN [k \in DOMAIN result.data.rows |->
             TopResource(result.subscription, result.data.rows[k])]
    ELSE <<>>

topResources(results) ==
    Concat([i \in DOMAIN results |-> TopRowsOf(results[i])])

\* The comparator turned round: (a, b) => a.cost - b.cost.
RECURSIVE InsertByCostAsc(_, _)
InsertByCostAsc(sorted, x) ==
    IF sorted = <<>> THEN <<x>>
    ELSE IF Head(sorted).cost <= x.cost
    THEN <<Head(sorted)>> \o InsertByCostAsc(Tail(sorted), x)
    ELSE <<x>> \o sorted

\* Array.prototype.sort is stable: with (a, b) => b.cost - a.cost an element
\* goes behind every element already placed whose cost is not smaller.
RECURSIVE InsertByCost(_, _)
InsertByCost(sorted, x) ==
    IF sorted = <<>> THEN <<x>>
    ELSE IF Head(sorted).cost >= x.cost
    THEN <<Head(sorted)>> \o InsertByCost(Tail(sorted), x)
    ELSE <<x>> \o sorted

RECURSIVE SortByCostDesc(_)
SortByCostDesc(s) ==
    IF s = <<>> THEN <<>>
    ELSE InsertByCost(SortByCostDesc(SubSeq(s, 1, Len(s) - 1)), s[Len(s)])

Slice(s, n) == SubSeq(s, 1, Min(n, Len(s)))

sortedResources(results) == Slice(SortByCostDesc(topResources(results)), TopN)

\* ----------------------------------------------------------- /api/plans
HasTier(plan) == plan.hasProperties /\ plan.pricingTier # ""

DefenderPlan(sub, plan) ==
    [subscriptionId |-> sub.subscriptionId,
     subscriptionName |-> sub.displayName,
     planName |-> plan.name,
     pricingTier |-> plan.pricingTier]

RECURSIVE TieredOnly(_)
TieredOnly(plans) ==
    IF plans = <<>> THEN <<>>
    ELSE (IF HasTier(Head(plans)) THEN <<Head(plans)>> ELSE <<>>)
         \o TieredOnly(Tail(plans))

PlansOf(result) ==
    IF result.data.kind = "object"
    THEN LET kept == TieredOnly(result.data.value)
         IN [k \in DOMAIN kept |-> DefenderPlan(result.subscription, kept[k])]
    ELSE <<>>

plansData(results) ==
    Concat([i \in DOMAIN results |-> PlansOf(results[i])])

\* ------------------------------------------------------------ the handlers
ErrorMessage(ep) ==
    CASE ep = "costs" -> "Failed to fetch cost data"
      [] ep = "top" -> "Failed to fetch top resources"
      [] ep = "plans" -> "Failed to fetch Defender plans"

\* The body res.json sends once Promise.all has fulfilled.
SuccessBody(ep, results, subs) ==
    CASE ep = "costs" -> CostsBody(results, subs)
      [] ep = "top" -> sortedResources(results)
      [] ep = "plans" -> plansData(results)

Fetch(ep, ok, data) ==
    CASE ep = "costs" -> fetchCostData(ok, data)
      [] ep = "top" -> fetchTopResources(ok, data)
      [] ep = "plans" -> fetchDefenderPlans(ok, data)

QueryPromise(ep, sub, fetched) ==
    CASE ep = "costs" -> costPromise(sub, fetched)
      [] ep = "top" -> resourcePromise(sub, fetched)
      [] ep = "plans" -> planPromise(sub, fetched)

\* One token kept for all requests: the one fetched by the first request
\* that holds one.
BearerShared(tokens, r) ==
    tokens[CHOOSE q \in DOMAIN tokens :
              tokens[q] # 0 /\ \A p \in DOMAIN tokens : tokens[p] # 0 => q <= p]

\* The token request r puts in an Authorization header: its handler's own
\* const accessToken.
Bearer(tokens, r) == tokens[r]

\* The calls issued upstream.
TokenCall == [kind |-> "token", bearer |-> 0, sub |-> 0]
ListCall(b) == [kind |-> "subscriptions", bearer |-> b, sub |-> 0]
QueryCall(b, s) == [kind |-> "query", bearer |-> b, sub |-> s]

Init ==
    /\ pc = [r \in Reqs |-> "idle"]
    /\ endpoint = [r \in Reqs |-> "none"]
    /\ startDate = [r \in Reqs |-> ""]
    /\ endDate = [r \in Reqs |-> ""]
    /\ accessToken = [r \in Reqs |-> 0]
    /\ subscriptions = [r \in Reqs |-> <<>>]
    /\ promises = [r \in Reqs |-> <<>>]
    /\ status = [r \in Reqs |-> 0]
    /\ body = [r \in Reqs |-> NoBody]
    /\ calls = [r \in Reqs |-> <<>>]
    /\ tokenRes = [r \in Reqs |-> [state |-> "none", value |-> 0]]
    /\ subsRes = [r \in Reqs |-> [state |-> "none", value |-> <<>>]]
    /\ upstream = [r \in Reqs |-> <<>>]
    /\ outOfOrder = [r \in Reqs |-> FALSE]

\* The catch block of a handler: res.status(500).json({error}).
Fail500(r) ==
    /\ pc' = [pc EXCEPT ![r] = "done"]
    /\ status' = [status EXCEPT ![r] = 500]
    /\ body' = [body EXCEPT ![r] = [error |-> ErrorMessage(endpoint[r])]]

\* A POST handler up to its first await: the parameter check, then the call
\* of getAccessToken.
PostStart(r, ep, sd, ed) ==
    /\ pc[r] = "idle"
    /\ endpoint' = [endpoint EXCEPT ![r] = ep]
    /\ startDate' = [startDate EXCEPT ![r] = sd]
    /\ endDate' = [endDate EXCEPT ![r] = ed]
    /\ IF MissingParams(sd, ed)
       THEN /\ pc' = [pc EXCEPT ![r] = "done"]
            /\ status' = [status EXCEPT ![r] = 400]
            /\ body' = [body EXCEPT ![r] = [error |-> "Missing required parameters"]]
            /\ UNCHANGED calls
       ELSE /\ pc' = [pc EXCEPT ![r] = "token"]
            /\ calls' = [calls EXCEPT ![r] = Append(@, TokenCall)]
            /\ UNCHANGED <<status, body>>
    /\ UNCHANGED <<accessToken, subscriptions, promises, tokenRes, subsRes,
                   upstream, outOfOrder>>

PostCosts(r, sd, ed) == PostStart(r, "costs", sd, ed)

PostTopResources(r, sd, ed) == PostStart(r, "top", sd, ed)

\* GET /api/plans up to its first await: no parameter check.
GetPlans(r) ==
    /\ pc[r] = "idle"
    /\ endpoint' = [endpoint EXCEPT ![r] = "plans"]
    /\ pc' = [pc EXCEPT ![r] = "token"]
    /\ calls' = [calls EXCEPT ![r] = Append(@, TokenCall)]
    /\ UNCHANGED <<startDate, endDate, accessToken, subscriptions, promises,
                   status, body, tokenRes, subsRes, upstream, outOfOrder>>

\* The token request settles; on success the handler goes on to call
\* getSubscriptions(accessToken).
TokenSettled(r, ok) ==
    /\ pc[r] = "token"
    /\ tokenRes' = [tokenRes EXCEPT ![r] =
                       IF ok THEN [state |-> "ok", value |-> IssuedToken(r)]
                       ELSE [state |-> "fail", value |-> 0]]
    /\ LET got == getAccessToken(ok, IssuedToken(r))
       IN IF got.threw
          THEN /\ Fail500(r)
               /\ UNCHANGED <<accessToken, calls>>
          ELSE /\ accessToken' = [accessToken EXCEPT ![r] = got.value]
               /\ pc' = [pc EXCEPT ![r] = "subs"]
               /\ calls' = [calls EXCEPT ![r] =
                                Append(@, ListCall(Bearer(accessToken', r)))]
               /\ UNCHANGED <<status, body>>
    /\ UNCHANGED <<endpoint, startDate, endDate, subscriptions, promises,
                   subsRes, upstream, outOfOrder>>

\* The subscription listing settles; on success the handler maps every
\* subscription to a query promise (all queries are issued here) and awaits
\* Promise.all of them, which is fulfilled at once when there are none.
SubscriptionsSettled(r, ok, list) ==
    /\ pc[r] = "subs"
    /\ subsRes' = [subsRes EXCEPT ![r] =
                      IF ok THEN [state |-> "ok", value |-> list]
                      ELSE [state |-> "fail", value |-> <<>>]]
    /\ LET got == getSubscriptions(ok, list)
           b == Bearer(accessToken, r)
           launched == [i \in DOMAIN got.value |-> PendingPromise]
           all == PromiseAll(launched)
       IN IF got.threw
          THEN /\ Fail500(r)
               /\ UNCHANGED <<subscriptions, promises, calls, upstream>>
          ELSE /\ subscriptions' = [subscriptions EXCEPT ![r] = got.value]
               /\ promises' = [promises EXCEPT ![r] = launched]
               /\ upstream' = [upstream EXCEPT ![r] =
                      [i \in DOMAIN got.value |-> [state |-> "pending", data |-> Undefined]]]
               /\ calls' = [calls EXCEPT ![r] = @ \o
                      [i \in DOMAIN got.value |-> QueryCall(b, got.value[i].subscriptionId)]]
               /\ IF all.state = "fulfilled"
                  THEN /\ pc' = [pc EXCEPT ![r] = "done"]
                       /\ status' = [status EXCEPT ![r] = 200]
                       /\ body' = [body EXCEPT ![r] =
                              SuccessBody(endpoint[r], all.values, got.value)]
                  ELSE /\ pc' = [pc EXCEPT ![r] = "fanout"]
                       /\ UNCHANGED <<status, body>>
    /\ UNCHANGED <<endpoint, startDate, endDate, accessToken, tokenRes,
                   outOfOrder>>

\* The reply to the i-th query of request r arrives: its promise settles, and
\* if that settles Promise.all while the handler awaits it, the handler runs
\* to its response.  A reply that arrives after the response changes nothing
\* the client sees.
QuerySettled(r, i, ok, data) ==
    /\ pc[r] \in {"fanout", "done"}
    /\ i \in DOMAIN upstream[r]
    /\ upstream[r][i].state = "pending"
    /\ upstream' = [upstream EXCEPT ![r][i] =
                       [state |-> IF ok THEN "ok" ELSE "fail",
                        data |-> IF ok THEN data ELSE Undefined]]
    /\ outOfOrder' = [outOfOrder EXCEPT ![r] =
                         @ \/ \E j \in 1..(i - 1) : upstream[r][j].state = "pending"]
    /\ LET p == QueryPromise(endpoint[r], subscriptions[r][i],
                             Fetch(endpoint[r], ok, data))
           ps == [promises[r] EXCEPT ![ResultIndex(promises[r], i)] = p]
           all == PromiseAll(ps)
       IN /\ promises' = [promises EXCEPT ![r] = ps]
          /\ IF pc[r] = "fanout" /\ all.state = "rejected"
             THEN Fail500(r)
             ELSE IF pc[r] = "fanout" /\ all.state = "fulfilled"
             THEN /\ pc' = [pc EXCEPT ![r] = "done"]
                  /\ status' = [status EXCEPT ![r] = 200]
                  /\ body' = [body EXCEPT ![r] =
                         SuccessBody(endpoint[r], all.values, subscriptions[r])]
             ELSE UNCHANGED <<pc, status, body>>
    /\ UNCHANGED <<endpoint, startDate, endDate, accessToken, subscriptions,
                   calls, tokenRes, subsRes>>

\* ------------------------------------------------------- specifications
\* One request in flight, every payload.
Next ==
    \/ \E sd, ed \in Dates : PostCosts(1, sd, ed)
    \/ \E sd, ed \in Dates : PostTopResources(1, sd, ed)
    \/ GetPlans(1)
    \/ \E ok \in BOOLEAN : TokenSettled(1, ok)
    \/ \E ok \in BOOLEAN, list \in SubLists(MaxSubs, 1) :
          SubscriptionsSettled(1, ok, list)
    \/ \E i \in 1..MaxSubs, ok \in BOOLEAN :
          \E data \in IF i \in DOMAIN subscriptions[1]
                       THEN Payloads(endpoint[1], 1, subscriptions[1][i].subscriptionId)
                       ELSE {} :
             QuerySettled(1, i, ok, data)

Spec == Init /\ [][Next]_vars

\* Several requests in flight, one payload per route.
NextConc ==
    \/ \E r \in Reqs, sd \in Dates : PostCosts(r, sd, "2024-01-31")
    \/ \E r \in Reqs, ed \in Dates : PostTopResources(r, "2024-01-01", ed)
    \/ \E r \in Reqs : GetPlans(r)
    \/ \E r \in Reqs, ok \in BOOLEAN : TokenSettled(r, ok)
    \/ \E r \in Reqs, ok \in BOOLEAN :
          \E list \in ConcSubLists(ConcSubs, r) : SubscriptionsSettled(r, ok, list)
    \/ \E r \in Reqs, i \in 1..ConcSubs, ok \in BOOLEAN :
          \E data \in IF i \in DOMAIN subscriptions[r]
                       THEN ConcPayloads(endpoint[r], r, subscriptions[r][i].subscriptionId)
                       ELSE {} :
             QuerySettled(r, i, ok, data)

SpecConc == Init /\ [][NextConc]_vars

\* ------------------------------------------------------------ properties
Launched(r) == subsRes[r].state = "ok"

Replies(r) == upstream[r]

AllSettled(r) == \A i \in DOMAIN Replies(r) : Replies(r)[i].state # "pending"

SomeFailed(r) == \E i \in DOMAIN Replies(r) : Replies(r)[i].state = "fail"

\* The rows the provider sent in reply to the i-th query of request r.
RepliedRows(r, i) ==
    IF Replies(r)[i].state = "ok" /\ Replies(r)[i].data.hasRows
    THEN Replies(r)[i].data.rows ELSE <<>>

RepliedRowCount(r) ==
    SeqSum([i \in DOMAIN Replies(r) |-> Len(RepliedRows(r, i))])

\* C1: a /api/costs request whose token fetch and subscription listing
\* succeeded is never answered with an error; once every cost query has
\* settled it is answered 200 and properties.rows has as many rows as the
\* successful queries returned together (failed ones count zero).
C1_CostsRowCount ==
    \A r \in Reqs :
        (endpoint[r] = "costs" /\ Launched(r)) =>
            /\ status[r] \in {0, 200}
            /\ AllSettled(r) =>
                  /\ status[r] = 200
                  /\ Len(body[r].properties.rows) = RepliedRowCount(r)

C1_Witness ==
    \E r \in Reqs :
        /\ endpoint[r] = "costs" /\ status[r] = 200
        /\ SomeFailed(r)
        /\ \E i \in DOMAIN Replies(r) : Len(RepliedRows(r, i)) = 2

\* C2: a POST request that lacks startDate or endDate is answered 400 and
\* has issued no upstream call.
C2_MissingParams400 ==
    \A r \in Reqs :
        (endpoint[r] \in {"costs", "top"} /\ (startDate[r] = "" \/ endDate[r] = "")) =>
            /\ pc[r] = "done"
            /\ status[r] = 400
            /\ calls[r] = <<>>

C2_Witness ==
    \E r \in Reqs :
        /\ endpoint[r] = "top" /\ startDate[r] # "" /\ endDate[r] = ""
        /\ status[r] = 400

\* C3: a 200 body of /api/top-resources has at most TopN entries, in
\* non-increasing order of cost, each the reshaped form of a row some query
\* returned, as many as there are rows up to TopN, and no returned row that
\* is left out has a rounded cost above that of an entry.
C3_TopSortedTruncated ==
    \A r \in Reqs :
        (endpoint[r] = "top" /\ status[r] = 200) =>
            LET out == body[r]
                Included(row) == \E j \in DOMAIN out : out[j].meterSubCategory = row[3]
            IN /\ Len(out) <= TopN
               /\ Len(out) = Min(TopN, RepliedRowCount(r))
               /\ \A j \in 1..(Len(out) - 1) : out[j].cost >= out[j + 1].cost
               /\ \A j \in DOMAIN out :
                     \E i \in DOMAIN Replies(r) : \E k \in DOMAIN RepliedRows(r, i) :
                        /\ RepliedRows(r, i)[k][3] = out[j].meterSubCategory
                        /\ toFixed2(RepliedRows(r, i)[k][1]) = out[j].cost
               /\ \A i \in DOMAIN Replies(r) : \A k \in DOMAIN RepliedRows(r, i) :
                     ~Included(RepliedRows(r, i)[k]) =>
                        \A j \in DOMAIN out :
                           toFixed2(RepliedRows(r, i)[k][1]) <= out[j].cost

C3_Witness ==
    \E r \in Reqs :
        /\ endpoint[r] = "top" /\ status[r] = 200
        /\ RepliedRowCount(r) > TopN
        /\ Len(body[r]) = TopN

\* C4: on /api/top-resources, as soon as one query has failed the request
\* is answered 500 'Failed to fetch top resources' and carries no rows; a
\* 200 answer means every query succeeded.
C4_TopFailsWhole ==
    \A r \in Reqs :
        endpoint[r] = "top" =>
            /\ SomeFailed(r) =>
                  /\ status[r] = 500
                  /\ body[r] = [error |-> "Failed to fetch top resources"]
            /\ (Launched(r) /\ status[r] = 200) =>
                  \A i \in DOMAIN Replies(r) : Replies(r)[i].state = "ok"

C4_Witness ==
    \E r \in Reqs :
        /\ endpoint[r] = "top" /\ status[r] = 500
        /\ SomeFailed(r)
        /\ \E i \in DOMAIN Replies(r) : Len(RepliedRows(r, i)) > 0

\* The plan records the provider sent in reply to the i-th query of r.
RepliedPlans(r, i) ==
    IF Replies(r)[i].state = "ok" THEN Replies(r)[i].data.value ELSE <<>>

Tiered(rec) == rec.hasProperties /\ rec.pricingTier # ""

\* C5: a /api/plans request whose token fetch and subscription listing
\* succeeded is never answered with an error; once every plan fetch has
\* settled it is answered 200 with exactly one entry per returned record
\* that has a pricing tier, under the subscription that was asked, and with
\* no other entry.
C5_PlansTieredOnly ==
    \A r \in Reqs :
        (endpoint[r] = "plans" /\ Launched(r)) =>
            /\ status[r] \in {0, 200}
            /\ AllSettled(r) =>
                  /\ status[r] = 200
                  /\ \A i \in DOMAIN Replies(r) : \A k \in DOMAIN RepliedPlans(r, i) :
                        LET rec == RepliedPlans(r, i)[k]
                            hits == {j \in DOMAIN body[r] : body[r][j].planName = rec.name}
                        IN IF Tiered(rec)
                           THEN /\ Cardinality(hits) = 1
                                /\ \A j \in hits :
                                      /\ body[r][j].pricingTier = rec.pricingTier
                                      /\ body[r][j].subscriptionId =
                                            subscriptions[r][i].subscriptionId
                           ELSE hits = {}
                  /\ \A j \in DOMAIN body[r] :
                        \E i \in DOMAIN Replies(r) : \E k \in DOMAIN RepliedPlans(r, i) :
                           RepliedPlans(r, i)[k].name = body[r][j].planName

C5_Witness ==
    \E r \in Reqs :
        /\ endpoint[r] = "plans" /\ status[r] = 200
        /\ SomeFailed(r)
        /\ Len(body[r]) = 2
        /\ \E i \in DOMAIN Replies(r) : Len(RepliedPlans(r, i)) = 3

QueryCalls(r) == SelectSeq(calls[r], LAMBDA c : c.kind = "query")

\* C6 as stated: no response is out while a launched query of the request
\* is still pending.
C6_JoinAllEverywhere ==
    \A r \in Reqs : status[r] # 0 => AllSettled(r)

\* C6, amended: the queries of a request are issued together, one per listed
\* subscription; /api/costs and /api/plans respond only once every query has
\* settled, and so does a 200 of /api/top-resources; the one response sent
\* while a query is pending is the 500 of /api/top-resources, sent upon the
\* first failed query.
C6_JoinAllExceptTopFailure ==
    \A r \in Reqs :
        /\ Launched(r) =>
              /\ Len(promises[r]) = Len(subscriptions[r])
              /\ Len(QueryCalls(r)) = Len(subscriptions[r])
        /\ (status[r] # 0 /\ ~AllSettled(r)) =>
              /\ endpoint[r] = "top"
              /\ status[r] = 500
              /\ SomeFailed(r)

C6_Witness ==
    \E r \in Reqs :
        /\ endpoint[r] = "top" /\ status[r] = 500
        /\ ~AllSettled(r)
        /\ \E i \in DOMAIN Replies(r) : Replies(r)[i].state = "ok"

CallsOfKind(r, kind) == {k \in DOMAIN calls[r] : calls[r][k].kind = kind}

\* C7 as stated: every request answered has made exactly one token fetch
\* and exactly one subscription listing.
C7_ExactlyOneEach ==
    \A r \in Reqs :
        pc[r] = "done" =>
            /\ Cardinality(CallsOfKind(r, "token")) = 1
            /\ Cardinality(CallsOfKind(r, "subscriptions")) = 1

\* C7, amended: a request fetches a token at most once and lists the
\* subscriptions at most once, exactly once each when it is answered 200 or
\* has issued a query; the token fetch is its first call, the listing its
\* second, every query comes after both; the listing and the queries bear
\* the token issued to this very request, and the queries are those of the
\* list answered to this very request, also with other requests in flight.
C7_OneTokenOneListing ==
    \A r \in Reqs :
        LET c == calls[r]
        IN /\ CallsOfKind(r, "token") \subseteq {1}
           /\ CallsOfKind(r, "subscriptions") \subseteq {2}
           /\ (status[r] = 200 \/ CallsOfKind(r, "query") # {}) =>
                 /\ CallsOfKind(r, "token") = {1}
                 /\ CallsOfKind(r, "subscriptions") = {2}
           /\ \A k \in DOMAIN c : k > 1 =>
                 /\ tokenRes[r].state = "ok"
                 /\ c[k].bearer = tokenRes[r].value
           /\ \A k \in DOMAIN c : k > 2 =>
                 /\ subsRes[r].state = "ok"
                 /\ k - 2 \in DOMAIN subsRes[r].value
                 /\ c[k].sub = subsRes[r].value[k - 2].subscriptionId
           /\ Launched(r) => Len(c) = 2 + Len(subsRes[r].value)

C7_Witness ==
    \E r, q \in Reqs :
        /\ r # q
        /\ pc[r] = "fanout" /\ pc[q] = "fanout"
        /\ tokenRes[r].value # tokenRes[q].value

\* C8: a failed token fetch ends the request with the route's generic 500,
\* the token fetch being its only upstream call; a failed subscription
\* listing ends it the same way with no query issued.
C8_AuthFailureFailsRequest ==
    \A r \in Reqs :
        /\ tokenRes[r].state = "fail" =>
              /\ pc[r] = "done" /\ status[r] = 500
              /\ body[r] = [error |-> ErrorMessage(endpoint[r])]
              /\ calls[r] = <<TokenCall>>
        /\ subsRes[r].state = "fail" =>
              /\ pc[r] = "done" /\ status[r] = 500
              /\ body[r] = [error |-> ErrorMessage(endpoint[r])]
              /\ Len(calls[r]) = 2
              /\ CallsOfKind(r, "query") = {}

C8_Witness ==
    \E r \in Reqs :
        /\ endpoint[r] = "costs"
        /\ tokenRes[r].state = "fail"
        /\ status[r] = 500

\* What each emitted row says of its origin: the mark the provider put in
\* the pass-through column, and the subscription id and name the row bears.
Emitted(r) ==
    CASE endpoint[r] = "costs" ->
           {[tag |-> x[3], sid |-> x[4], sname |-> x[6]] :
               x \in Range(body[r].properties.rows)}
      [] endpoint[r] = "top" ->
           {[tag |-> x.meterSubCategory, sid |-> x.subscriptionId,
             sname |-> x.subscriptionName] : x \in Range(body[r])}
      [] endpoint[r] = "plans" ->
           {[tag |-> x.planName, sid |-> x.subscriptionId,
             sname |-> x.subscriptionName] : x \in Range(body[r])}

\* The marks of the rows sent in reply to the i-th query of request r.
RepliedTags(r, i) ==
    IF endpoint[r] = "plans"
    THEN {x.name : x \in Range(RepliedPlans(r, i))}
    ELSE {x[3] : x \in Range(RepliedRows(r, i))}

RECURSIVE TieredNames(_)
TieredNames(recs) ==
    IF recs = <<>> THEN <<>>
    ELSE (IF Tiered(Head(recs)) THEN <<Head(recs).name>> ELSE <<>>)
         \o TieredNames(Tail(recs))

ListOrderTags(r) ==
    IF endpoint[r] = "plans"
    THEN Concat([i \in DOMAIN Replies(r) |-> TieredNames(RepliedPlans(r, i))])
    ELSE Concat([i \in DOMAIN Replies(r) |->
                    [k \in DOMAIN RepliedRows(r, i) |-> RepliedRows(r, i)[k][3]]])

\* C10: the response is fixed by the subscription list and the replies,
\* whatever the order the replies came in.  Once all have come, the status
\* is 500 for /api/top-resources with a failed query and 200 otherwise; the
\* rows of /api/costs and the entries of /api/plans stand in list order,
\* then reply order; the entries of /api/top-resources stand by falling
\* cost, equal costs in list order then reply order, and what is left out
\* comes behind every entry in that same order.
C10_OrderIndependent ==
    \A r \in Reqs :
        (Launched(r) /\ AllSettled(r)) =>
            LET tags == ListOrderTags(r)
                Pos(tag) == CHOOSE p \in DOMAIN tags : tags[p] = tag
            IN /\ status[r] = IF endpoint[r] = "top" /\ SomeFailed(r) THEN 500 ELSE 200
               /\ (endpoint[r] = "costs") =>
                     /\ [j \in DOMAIN body[r].properties.rows |->
                            body[r].properties.rows[j][3]] = tags
                     /\ body[r].subscriptions = subsRes[r].value
               /\ (endpoint[r] = "plans") =>
                     [j \in DOMAIN body[r] |-> body[r][j].planName] = tags
               /\ (endpoint[r] = "top" /\ status[r] = 200) =>
                     LET out == body[r]
                         Before(c1, t1, c2, t2) ==
                             c1 > c2 \/ (c1 = c2 /\ Pos(t1) < Pos(t2))
                     IN /\ \A j \in 1..(Len(out) - 1) :
                              Before(out[j].cost, out[j].meterSubCategory,
                                     out[j + 1].cost, out[j + 1].meterSubCategory)
                        /\ \A i \in DOMAIN Replies(r) : \A k \in DOMAIN RepliedRows(r, i) :
                              LET x == RepliedRows(r, i)[k]
                              IN (\A j \in DOMAIN out : out[j].meterSubCategory # x[3]) =>
                                    \A j \in DOMAIN out :
                                       Before(out[j].cost, out[j].meterSubCategory,
                                              toFixed2(x[1]), x[3])

C10_Witness ==
    \E r \in Reqs :
        /\ endpoint[r] = "costs" /\ status[r] = 200
        /\ outOfOrder[r]
        /\ \E i, j \in DOMAIN Replies(r) :
              i # j /\ Len(RepliedRows(r, i)) > 0 /\ Len(RepliedRows(r, j)) > 0

====
